---- MODULE Spec2Model ----
(***************************************************************************)
(* A model of rlberry's AgentStats (rlberry/stats/agent_stats.py), of the  *)
(* bandit environments (rlberry/envs/bandits/bandit_base.py) and of the    *)
(* episode loop of REINFORCEAgent (rlberry/agents/torch/reinforce).        *)
(*                                                                         *)
(* Python objects that are compared by identity (environments, optuna      *)
(* studies) live in heaps indexed by object ids; dictionaries are          *)
(* functions from keys to values; an optional value is the empty set       *)
(* (None) or a singleton; a string that is sliced is a sequence of         *)
(* characters.                                                             *)
(***************************************************************************)
EXTENDS Integers, Sequences, FiniteSets, TLC

VARIABLES
    \* AgentStats
    envs,       \* heap of environment objects, indexed by object id
    self,       \* __dict__ of the AgentStats object
    pc,         \* "new", "idle", "fitting" or "optimizing"
    tasks,      \* the joblib tasks of the running (or last) fit() call
    nfits,      \* number of fit() calls started
    last,       \* the last completed call: its name, argument, outcome, return value
    pre,        \* the AgentStats __dict__ and the studies when the last call began
    optuna_installed,   \* the module's _OPTUNA_INSTALLED
    studies,    \* heap of optuna study objects, indexed by object id
    call,       \* the running optimize_hyperparams() call
    nopts,      \* number of optimize_hyperparams() calls made
    files,      \* the file system: file name -> pickled dictionary
    loaded,     \* __dict__ of the object the last load() returned
    saved,      \* the last save(): its filename argument and the __dict__ saved
    nios,       \* number of save() calls made
    objective,  \* the objective() calls of the trials: (study, trial) -> locals
    touched,    \* (environment, trial) pairs: the trial acted on the environment
    \* AdversarialBandit
    adv,        \* the environment: n_arms and the deque of reward rows
    advTable,   \* the reward table the environment was constructed with
    advOk,      \* number of step() calls that returned
    advLast,    \* the last step() or reset() call and its outcome
    \* Bandit
    bandit,     \* the environment: its rng and its pre-sampled rewards
    blog,       \* seed, actions and rewards since the last reseed
    bref,       \* a remembered earlier run: seed, actions and rewards
    \* REINFORCEAgent
    agent,      \* horizon, batch_size, episode counter, memory
    rpc,        \* "idle", "fit", "episode", "raised"
    rfit        \* the running (or last) fit(): budget, count, episodes run, ...

fitVars == <<tasks, nfits>>
optVars == <<studies, call, nopts>>
ioVars == <<files, loaded, saved, nios>>
trialVars == <<objective, touched>>
statsVars ==
    <<envs, self, pc, last, pre, optuna_installed, fitVars, optVars, ioVars,
      trialVars>>
advVars == <<adv, advTable, advOk, advLast>>
banditVars == <<bandit, blog, bref>>
reinforceVars == <<agent, rpc, rfit>>

vars == <<statsVars, advVars, banditVars, reinforceVars>>

\* calls of the AgentStats object made so far
NCalls == nfits + nopts + nios

----------------------------------------------------------------------------
(* Bounds of the model *)

MaxFit == 2         \* largest n_fit given to the constructor
MaxJobs == 2        \* largest n_jobs given to the constructor
MaxCalls == 2       \* fit, optimize_hyperparams and save calls in one behaviour
MaxTrials == 2      \* largest n_trials given to optimize_hyperparams()
MaxRows == 2        \* rows of the reward table of an AdversarialBandit
MaxSteps == 3       \* recorded steps of a Bandit between two reseeds
RngMod == 8         \* states of a random generator
MaxHorizon == 2     \* largest horizon of a REINFORCEAgent
MaxBatch == 2       \* largest batch_size of a REINFORCEAgent
MaxBudget == 2      \* largest budget given to REINFORCEAgent.fit()
MaxFitCalls == 2    \* calls of REINFORCEAgent.fit()

----------------------------------------------------------------------------
(* Python values *)

None == {}
Some(v) == {v}
IsNone(o) == o = {}
Val(o) == CHOOSE v \in o : TRUE

EmptyDict == [k \in {} |-> 0]

\* dict.update(other): the keys of other are set, the others kept
DictUpdate(d, other) ==
    [k \in DOMAIN d \cup DOMAIN other |->
        IF k \in DOMAIN other THEN other[k] ELSE d[k]]

Range(s) == {s[i] : i \in DOMAIN s}

----------------------------------------------------------------------------
(* The environment heap.  An environment object records the object it was  *)
(* deep-copied from (0: made by the caller) and the reseed() calls made on *)
(* it.                                                                     *)

UserTrainEnv == 1
UserEvalEnv == 2

NewEnv(from) == [src |-> from, reseeds |-> 0]

\* deepcopy(env): a new object; the copied object is left alone
DeepCopyEnv(h, id) == Append(h, NewEnv(id))

\* env.reseed()
Reseed(h, id) == [h EXCEPT ![id].reseeds = @ + 1]

\* the object bound to self.eval_env: a reseeded deep copy of eval_env, or
\* of train_env when eval_env is None
EvalEnvSource(train_env, eval_env) ==
    IF IsNone(eval_env) THEN train_env ELSE Val(eval_env)

\* (mutant) the copy is not reseeded
TrainEnvCopyNoReseed(h, train_env) == DeepCopyEnv(h, train_env)

\* one iteration of the loop that fills train_env_set: the heap after
\* _env = deepcopy(train_env); _env.reseed()
TrainEnvCopy(h, train_env) == Reseed(DeepCopyEnv(h, train_env), Len(h) + 1)

\* the object appended to train_env_set by that iteration
TrainEnvAppended(h, train_env) == Len(h) + 1

RECURSIVE TrainEnvLoop(_, _, _, _)
TrainEnvLoop(h, set, train_env, n) ==
    IF n <= 0 THEN <<h, set>>
    ELSE TrainEnvLoop(TrainEnvCopy(h, train_env),
                      Append(set, TrainEnvAppended(h, train_env)),
                      train_env, n - 1)

----------------------------------------------------------------------------
(* The agent class given to AgentStats *)

AgentClass == "Agent"
AgentClassName == "agent"

\* agent_class.fit_info: the entries of the info an agent's fit() returns
FitInfo == <<"n_episodes", "episode_rewards">>

\* the infos an agent's fit() may return
InfoSet == { [n_episodes |-> 1, episode_rewards |-> 0],
             [n_episodes |-> 2, episode_rewards |-> 1] }

----------------------------------------------------------------------------
(* AdversarialBandit.  The reward table has one row per step and one       *)
(* column per arm; the environment keeps the rows in a deque.              *)

NArms == 2
RewardValues == {1, 2}

\* the reward tables of shape (T, NArms), T <= MaxRows
Tables ==
    UNION {[1..T -> [1..NArms -> RewardValues]] : T \in 0..MaxRows}

\* the actions a caller may give: the arms, and integers on both sides of them
Actions == (0 - NArms - 1)..NArms

\* whether row[a] exists, and its value: a negative index counts from the end
HasIndex(row, a) == 0 - Len(row) <= a /\ a < Len(row)
PyIndex(row, a) == IF a >= 0 THEN row[a + 1] ELSE row[Len(row) + a + 1]

\* AdversarialBandit.__init__
AdvConstruct(rewards) == [n_arms |-> NArms, rewards |-> rewards]

\* AdversarialBandit.step: the outcome, the reward and the environment after
AdvStepResult(e, action) ==
    IF ~(action < e.n_arms)
    THEN [out |-> "AssertionError", reward |-> 0, env |-> e]
    ELSE IF e.rewards = <<>>
    THEN [out |-> "IndexError", reward |-> 0, env |-> e]
    ELSE LET row == Head(e.rewards)
             popped == [e EXCEPT !.rewards = Tail(@)]
         IN IF HasIndex(row, action)
            THEN [out |-> "ok", reward |-> PyIndex(row, action), env |-> popped]
            ELSE [out |-> "IndexError", reward |-> 0, env |-> popped]

AdvStep(action) ==
    /\ LET r == AdvStepResult(adv, action)
       IN /\ adv' = r.env
          /\ advOk' = IF r.out = "ok" THEN advOk + 1 ELSE advOk
          /\ advLast' = [op |-> "step", action |-> action, out |-> r.out,
                         reward |-> r.reward, rows |-> Len(adv.rewards)]
    /\ UNCHANGED <<advTable, statsVars, banditVars, reinforceVars>>

\* AdversarialBandit.reset
AdvReset ==
    /\ advLast' = [op |-> "reset", action |-> 0, out |-> "ok", reward |-> 0,
                   rows |-> Len(adv.rewards)]
    /\ UNCHANGED <<adv, advTable, advOk, statsVars, banditVars, reinforceVars>>

InitAdv ==
    /\ advTable \in Tables
    /\ adv = AdvConstruct(advTable)
    /\ advOk = 0
    /\ advLast = [op |-> "none", action |-> 0, out |-> "ok", reward |-> 0,
                  rows |-> Len(advTable)]

InitAdvOff ==
    /\ advTable = <<>>
    /\ adv = AdvConstruct(advTable)
    /\ advOk = 0
    /\ advLast = [op |-> "none", action |-> 0, out |-> "ok", reward |-> 0,
                  rows |-> Len(advTable)]

NextAdv ==
    \/ \E action \in Actions : AdvStep(action)
    \/ AdvReset

----------------------------------------------------------------------------
(* Bandit.  The generator self.rng is a state in 0..RngMod-1 that every    *)
(* draw advances; a law is the threshold under which a draw gives reward   *)
(* 1.  Reseeding sets the generator to a state that depends on the seed    *)
(* alone.                                                                  *)

PreSamples == 10
Laws == <<2, 6>>
Seeds == {0, 1}

\* the generator after one draw
NextRng(x) == (5 * x + 3) % RngMod

\* laws[action].rvs(random_state=rng, size=1)[0], from the generator's state
Draw(law, x) == IF NextRng(x) < law THEN 1 ELSE 0

\* law.rvs(size=n, random_state=rng): the samples and the generator after
RECURSIVE Rvs(_, _, _)
Rvs(law, x, n) ==
    IF n <= 0 THEN [samples |-> <<>>, rng |-> x]
    ELSE LET rest == Rvs(law, NextRng(x), n - 1)
         IN [samples |-> <<Draw(law, x)>> \o rest.samples, rng |-> rest.rng]

\* Bandit.__init__: the arms are pre-sampled in turn from self.rng
RECURSIVE PreSample(_, _, _)
PreSample(laws, x, k) ==
    IF k > Len(laws) THEN [rewards |-> <<>>, rng |-> x]
    ELSE LET r == Rvs(laws[k], x, PreSamples)
             rest == PreSample(laws, r.rng, k + 1)
         IN [rewards |-> <<r.samples>> \o rest.rewards, rng |-> rest.rng]

BanditConstruct(laws, x) ==
    LET p == PreSample(laws, x, 1)
    IN [laws |-> laws, n_arms |-> Len(laws), rng |-> p.rng,
        rewards |-> p.rewards,
        n_rewards |-> [k \in DOMAIN laws |-> PreSamples]]

\* (mutant) step() hands out the pre-sampled rewards of the arm first
BanditStepPresampled(e, action) ==
    IF ~(action < e.n_arms)
    THEN [out |-> "AssertionError", reward |-> 0, env |-> e]
    ELSE IF ~HasIndex(e.laws, action)
    THEN [out |-> "IndexError", reward |-> 0, env |-> e]
    ELSE LET k == IF action >= 0 THEN action + 1 ELSE Len(e.laws) + action + 1
         IN IF e.rewards[k] # <<>>
            THEN [out |-> "ok", reward |-> Head(e.rewards[k]),
                  env |-> [e EXCEPT !.rewards[k] = Tail(@)]]
            ELSE [out |-> "ok", reward |-> Draw(e.laws[k], e.rng),
                  env |-> [e EXCEPT !.rng = NextRng(@)]]

\* Bandit.step: the outcome, the reward and the environment after
BanditStepResult(e, action) ==
    IF ~(action < e.n_arms)
    THEN [out |-> "AssertionError", reward |-> 0, env |-> e]
    ELSE IF ~HasIndex(e.laws, action)
    THEN [out |-> "IndexError", reward |-> 0, env |-> e]
    ELSE [out |-> "ok", reward |-> Draw(PyIndex(e.laws, action), e.rng),
          env |-> [e EXCEPT !.rng = NextRng(@)]]

\* step(action); the steps of a run are recorded up to MaxSteps of them
BanditStep(action) ==
    /\ IsNone(blog.seed) \/ Len(blog.actions) < MaxSteps
    /\ LET r == BanditStepResult(bandit, action)
       IN /\ bandit' = r.env
          /\ blog' = IF r.out = "ok" /\ ~IsNone(blog.seed)
                     THEN [blog EXCEPT !.actions = Append(@, action),
                                       !.rewards = Append(@, r.reward)]
                     ELSE blog
    /\ UNCHANGED <<bref, statsVars, advVars, reinforceVars>>

\* Bandit.reset
BanditReset ==
    /\ UNCHANGED <<bandit, blog, bref, statsVars, advVars, reinforceVars>>

\* the generator of an environment reseeded with seed s
SeedRng(s) == s % RngMod

\* safe_reseed(env, Seeder(s)): a new run begins
BanditReseed(s) ==
    /\ bandit' = [bandit EXCEPT !.rng = SeedRng(s)]
    /\ blog' = [seed |-> Some(s), actions |-> <<>>, rewards |-> <<>>]
    /\ bref' = IF IsNone(bref.seed) THEN bref ELSE [bref EXCEPT !.old = TRUE]
    /\ UNCHANGED <<statsVars, advVars, reinforceVars>>

\* the run so far is remembered, to be compared with later runs
BanditRemember ==
    /\ ~IsNone(blog.seed)
    /\ bref' = [seed |-> blog.seed, actions |-> blog.actions,
                rewards |-> blog.rewards, old |-> FALSE]
    /\ UNCHANGED <<bandit, blog, statsVars, advVars, reinforceVars>>

NoRun == [seed |-> None, actions |-> <<>>, rewards |-> <<>>]

InitBandit ==
    /\ \E x \in Seeds : bandit = BanditConstruct(Laws, SeedRng(x))
    /\ blog = NoRun
    /\ bref = [seed |-> None, actions |-> <<>>, rewards |-> <<>>, old |-> FALSE]

InitBanditOff ==
    /\ bandit = BanditConstruct(<<>>, 0)
    /\ blog = NoRun
    /\ bref = [seed |-> None, actions |-> <<>>, rewards |-> <<>>, old |-> FALSE]

NextBandit ==
    \/ \E action \in Actions : BanditStep(action)
    \/ BanditReset
    \/ \E s \in Seeds : BanditReseed(s)
    \/ BanditRemember

----------------------------------------------------------------------------
(* REINFORCEAgent.  The memory is the list memory.is_terminals; rpc is the *)
(* place of fit(): at the test of its while loop, at the head of the for   *)
(* loop of _run_episode(), or after that loop.                             *)

Max(a, b) == IF a >= b THEN a ELSE b

\* REINFORCEAgent.__init__, which ends with reset()
ReinforceConstruct(horizon, batch_size) ==
    [horizon |-> horizon, batch_size |-> batch_size, episode |-> 0,
     memory |-> <<>>]

NoFit ==
    [budget |-> 0, count |-> 0, ep0 |-> 0, ran |-> 0, steps |-> 0,
     lastSteps |-> 0 - 1, lastDone |-> FALSE, out |-> "none", calls |-> 0]

\* REINFORCEAgent.reset
ReinforceReset ==
    /\ rpc = "idle"
    /\ agent' = [agent EXCEPT !.memory = <<>>, !.episode = 0]
    /\ rfit' = [NoFit EXCEPT !.calls = rfit.calls]
    /\ UNCHANGED <<rpc, statsVars, advVars, banditVars>>

\* fit(budget) is called
ReinforceFit(budget) ==
    /\ rpc = "idle"
    /\ rfit.calls < MaxFitCalls
    /\ rfit' = [NoFit EXCEPT !.budget = budget, !.ep0 = agent.episode,
                             !.out = "running", !.calls = rfit.calls + 1]
    /\ rpc' = "while"
    /\ UNCHANGED <<agent, statsVars, advVars, banditVars>>

\* while count < n_episodes_to_run: an episode begins, or fit() returns
ReinforceWhile ==
    /\ rpc = "while"
    /\ IF rfit.count < rfit.budget
       THEN /\ rpc' = "for"
            /\ rfit' = [rfit EXCEPT !.steps = 0]
       ELSE /\ rpc' = "idle"
            /\ rfit' = [rfit EXCEPT !.out = "returned"]
    /\ UNCHANGED <<agent, statsVars, advVars, banditVars>>

\* (mutant) the loop goes on after a done step
AfterStepNoBreak(done) == "for"

\* if done: break
AfterStep(done) == IF done THEN "end" ELSE "for"

\* one pass of the for loop: a step of the environment, saved in the memory
ReinforceStep(done) ==
    /\ rpc = "for"
    /\ rfit.steps < agent.horizon
    /\ agent' = [agent EXCEPT !.memory = Append(@, done)]
    /\ rfit' = [rfit EXCEPT !.steps = @ + 1]
    /\ rpc' = AfterStep(done)
    /\ UNCHANGED <<statsVars, advVars, banditVars>>

\* range(self.horizon) is exhausted
ReinforceForEnd ==
    /\ rpc = "for"
    /\ ~(rfit.steps < agent.horizon)
    /\ rpc' = "end"
    /\ UNCHANGED <<agent, rfit, statsVars, advVars, banditVars>>

\* the end of _run_episode() and count += 1; _update() on an empty memory
\* returns or raises, as the network decides
ReinforceEpisodeEnd(updates) ==
    /\ rpc = "end"
    /\ LET episode == agent.episode + 1
           ended == [rfit EXCEPT !.ran = @ + 1, !.lastSteps = rfit.steps,
                        !.lastDone = rfit.steps > 0
                                     /\ agent.memory[Len(agent.memory)]]
       IN IF agent.batch_size = 0
          THEN /\ agent' = [agent EXCEPT !.episode = episode]
               /\ rfit' = [ended EXCEPT !.out = "ZeroDivisionError"]
               /\ rpc' = "idle"
          ELSE IF episode % agent.batch_size = 0
          THEN IF agent.memory = <<>> /\ ~updates
               THEN /\ agent' = [agent EXCEPT !.episode = episode]
                    /\ rfit' = [ended EXCEPT !.out = "RuntimeError"]
                    /\ rpc' = "idle"
               ELSE /\ agent' = [agent EXCEPT !.episode = episode,
                                              !.memory = <<>>]
                    /\ rfit' = [ended EXCEPT !.count = @ + 1]
                    /\ rpc' = "while"
          ELSE /\ agent' = [agent EXCEPT !.episode = episode]
               /\ rfit' = [ended EXCEPT !.count = @ + 1]
               /\ rpc' = "while"
    /\ UNCHANGED <<statsVars, advVars, banditVars>>

InitReinforce ==
    /\ \E horizon \in (0 - 1)..MaxHorizon, batch_size \in 0..MaxBatch :
           agent = ReinforceConstruct(horizon, batch_size)
    /\ rpc = "idle"
    /\ rfit = NoFit

InitReinforceOff ==
    /\ agent = ReinforceConstruct(0, 0)
    /\ rpc = "idle"
    /\ rfit = NoFit

\* the steps fit() takes by itself once called
ReinforceRun ==
    \/ ReinforceWhile
    \/ \E done \in BOOLEAN : ReinforceStep(done)
    \/ ReinforceForEnd
    \/ \E updates \in BOOLEAN : ReinforceEpisodeEnd(updates)

NextReinforce ==
    \/ ReinforceReset
    \/ \E budget \in (0 - 1)..MaxBudget : ReinforceFit(budget)
    \/ ReinforceRun

----------------------------------------------------------------------------
(* AgentStats.__init__ with a non-None agent_class *)

Construct(train_env, eval_env, eval_horizon, init_kwargs, n_fit, n_jobs) ==
    /\ pc = "new"
    /\ LET h1 == Reseed(DeepCopyEnv(envs, EvalEnvSource(train_env, eval_env)),
                        Len(envs) + 1)
           loop == TrainEnvLoop(h1, <<>>, train_env, n_fit)
       IN /\ envs' = loop[1]
          /\ self' = [agent_name |-> AgentClassName,
                      identifier |-> <<"stats", AgentClassName>>,
                      fit_info |-> FitInfo,
                      agent_class |-> AgentClass,
                      train_env |-> train_env,
                      eval_env |-> Len(envs) + 1,
                      eval_horizon |-> eval_horizon,
                      init_kwargs |-> IF IsNone(init_kwargs) THEN EmptyDict
                                      ELSE Val(init_kwargs),
                      fit_kwargs |-> EmptyDict,
                      policy_kwargs |-> EmptyDict,
                      n_fit |-> n_fit,
                      n_jobs |-> n_jobs,
                      output_dir |-> "stats_data",
                      verbose |-> 5,
                      train_env_set |-> loop[2],
                      fitted_agents |-> None,
                      fit_statistics |-> EmptyDict,
                      rng |-> 0,
                      study |-> None,
                      default_filename |-> <<"stats_data", "stats", AgentClassName>>]
    /\ pc' = "idle"
    /\ last' = [op |-> "init", arg |-> [train_env |-> train_env, eval_env |-> eval_env],
                out |-> "ok", ret |-> None]
    /\ pre' = [self |-> self, studies |-> studies]
    /\ UNCHANGED <<optuna_installed, fitVars, optVars, ioVars>>
    /\ UNCHANGED <<trialVars, advVars, banditVars, reinforceVars>>

\* the constructor called with arguments from the given sets
DoConstruct(EvalEnvs, Horizons, Kwargs, NFits, NJobs) ==
    \E eval_env \in EvalEnvs, eval_horizon \in Horizons, init_kwargs \in Kwargs,
       n_fit \in NFits, n_jobs \in NJobs :
        Construct(UserTrainEnv, eval_env, eval_horizon, init_kwargs, n_fit, n_jobs)

----------------------------------------------------------------------------
(* AgentStats.fit.  joblib's Parallel runs at most n_jobs tasks at a time  *)
(* and returns their outputs in the order of the tasks it was given.       *)

\* the argument tuple fit() builds for one training environment; init and
\* fit kwargs are deep copies (values)
FitArg(train_env) ==
    [agent_class |-> self.agent_class, train_env |-> train_env,
     init_kwargs |-> self.init_kwargs, fit_kwargs |-> self.fit_kwargs]

FitBegin ==
    /\ pc = "idle"
    /\ NCalls < MaxCalls
    /\ nfits' = nfits + 1
    /\ tasks' = [i \in DOMAIN self.train_env_set |->
                    [arg |-> FitArg(self.train_env_set[i]),
                     st |-> "queued", fin |-> 0,
                     agent |-> None, info |-> None]]
    /\ pc' = "fitting"
    /\ pre' = [self |-> self, studies |-> studies]
    /\ UNCHANGED <<envs, self, last, optuna_installed, optVars, ioVars>>
    /\ UNCHANGED <<trialVars, advVars, banditVars, reinforceVars>>

Running == {i \in DOMAIN tasks : tasks[i].st = "running"}
Finished == {i \in DOMAIN tasks : tasks[i].st = "done"}

\* _fit_worker, up to the call of agent.fit: the agent is constructed on the
\* environment of its argument tuple, which is neither copied nor reseeded
WorkerAgent(arg) == [env |-> arg.train_env, init_kwargs |-> arg.init_kwargs]

WorkerStart(i) ==
    /\ pc = "fitting"
    /\ tasks[i].st = "queued"
    /\ Cardinality(Running) < self.n_jobs
    /\ tasks' = [tasks EXCEPT ![i].st = "running",
                              ![i].agent = Some(WorkerAgent(tasks[i].arg))]
    /\ UNCHANGED <<envs, self, pc, nfits, last, pre, optuna_installed, optVars, ioVars>>
    /\ UNCHANGED <<trialVars, advVars, banditVars, reinforceVars>>

\* _fit_worker, from agent.fit to its return of (agent, info)
WorkerFinish(i, info) ==
    /\ pc = "fitting"
    /\ tasks[i].st = "running"
    /\ tasks' = [tasks EXCEPT ![i].st = "done",
                              ![i].fin = Cardinality(Finished) + 1,
                              ![i].info = Some(info)]
    /\ UNCHANGED <<envs, self, pc, nfits, last, pre, optuna_installed, optVars, ioVars>>
    /\ UNCHANGED <<trialVars, advVars, banditVars, reinforceVars>>

\* (mutant) the outputs in the order the workers finished
WorkersOutputByFinish(ts) ==
    [k \in DOMAIN ts |->
        LET i == CHOOSE i \in DOMAIN ts : ts[i].fin = k
        IN <<Val(ts[i].agent), Val(ts[i].info)>>]

\* workers_output: the (agent, info) pairs, in the order of the tasks
WorkersOutput(ts) ==
    [i \in DOMAIN ts |-> <<Val(ts[i].agent), Val(ts[i].info)>>]

\* (mutant) the statistics of a new fit() call are appended to the old ones
GatherEntryAccumulate(old, stats, entry) ==
    (IF entry \in DOMAIN old THEN old[entry] ELSE <<>>)
        \o [i \in DOMAIN stats |-> stats[i][entry]]

\* self.fit_statistics[entry] after the gathering loop
GatherEntry(old, stats, entry) == [i \in DOMAIN stats |-> stats[i][entry]]

\* the gathering loop over fit_info
GatherStats(old, stats, fit_info) ==
    DictUpdate(old, [e \in Range(fit_info) |-> GatherEntry(old, stats, e)])

FitEnd ==
    /\ pc = "fitting"
    /\ \A i \in DOMAIN tasks : tasks[i].st = "done"
    /\ LET out == WorkersOutput(tasks)
           agents == [i \in DOMAIN out |-> out[i][1]]
           stats == [i \in DOMAIN out |-> out[i][2]]
       IN self' = [self EXCEPT
                     !.fitted_agents = Some(agents),
                     !.fit_statistics = GatherStats(@, stats, self.fit_info)]
    /\ pc' = "idle"
    /\ last' = [op |-> "fit", arg |-> None, out |-> "ok", ret |-> None]
    /\ UNCHANGED <<envs, tasks, nfits, pre, optuna_installed, optVars, ioVars>>
    /\ UNCHANGED <<trialVars, advVars, banditVars, reinforceVars>>

----------------------------------------------------------------------------
(* AgentStats.optimize_hyperparams.  optuna is an external library: a      *)
(* study keeps its sampler, its pruner, its direction and the list of its  *)
(* trials; study.optimize runs the objective on at most n_jobs trials at a *)
(* time; study.best_trial is a completed trial with the best value.        *)

\* the (sampler_method, pruner_method) pairs a caller may give: supported
\* and unsupported names of each
Methods == { <<"random", "none">>, <<"optuna_default", "halving">>,
             <<"tpe", "none">>, <<"random", "median">>,
             <<"optuna_default", "median">> }

\* the dictionaries agent_class.sample_parameters(trial) may return
ParamsSet == { [gamma |-> 1], [gamma |-> 2, learning_rate |-> 1] }

\* the values an objective may return
ValueSet == {0, 1}

NoCall == [n_trials |-> 0, n_jobs |-> 0, study |-> 0, base |-> 0, stop |-> "no"]

\* (mutant) the stored study is never continued
ContinuesNever(a) == FALSE

\* whether the call continues the stored study
Continues(a) == a.continue_previous

\* the sampler made for a new study, and self.rng after it: the seed of a
\* RandomSampler is drawn from self.rng
NewSampler(method, rng) ==
    IF method = "random"
    THEN [ok |-> TRUE, sampler |-> Some([seed |-> rng]), rng |-> rng + 1]
    ELSE IF method = "optuna_default"
    THEN [ok |-> TRUE, sampler |-> None, rng |-> rng]
    ELSE [ok |-> FALSE, sampler |-> None, rng |-> rng]

\* (mutant) every pruner method is accepted
NewPrunerAny(method) ==
    IF method = "halving"
    THEN [ok |-> TRUE, pruner |-> Some("SuccessiveHalvingPruner")]
    ELSE [ok |-> TRUE, pruner |-> None]

\* the pruner made for a new study
NewPruner(method) ==
    IF method = "halving"
    THEN [ok |-> TRUE, pruner |-> Some("SuccessiveHalvingPruner")]
    ELSE IF method = "none"
    THEN [ok |-> TRUE, pruner |-> None]
    ELSE [ok |-> FALSE, pruner |-> None]

\* optuna.create_study(sampler=sampler, pruner=pruner, direction='maximize')
CreateStudy(sampler, pruner) ==
    [sampler |-> sampler, pruner |-> pruner, direction |-> "maximize",
     trials |-> <<>>]

\* optimize_hyperparams up to the definition of the objective: the outcome
\* ("run" when study.optimize is reached), the __dict__, the studies and the
\* study to optimize
OptSetup(d, hs, installed, a) ==
    LET rejected(out, dd) == [out |-> out, self |-> dd, studies |-> hs, study |-> 0]
        s == NewSampler(a.sampler_method, d.rng)
        p == NewPruner(a.pruner_method)
    IN IF ~installed THEN rejected("None", d)
       ELSE IF IsNone(d.eval_horizon) THEN rejected("AssertionError", d)
       ELSE IF Continues(a)
       THEN IF IsNone(d.study) THEN rejected("AssertionError", d)
            ELSE [out |-> "run", self |-> d, studies |-> hs, study |-> Val(d.study)]
       ELSE IF ~s.ok THEN rejected("NotImplementedError", d)
       ELSE IF ~p.ok THEN rejected("NotImplementedError", [d EXCEPT !.rng = s.rng])
       ELSE [out |-> "run",
             self |-> [d EXCEPT !.rng = s.rng, !.study = Some(Len(hs) + 1)],
             studies |-> Append(hs, CreateStudy(s.sampler, p.pruner)),
             study |-> Len(hs) + 1]

OptBegin(n_trials, n_jobs, sampler_method, pruner_method, continue_previous) ==
    /\ pc = "idle"
    /\ NCalls < MaxCalls
    /\ nopts' = nopts + 1
    /\ pre' = [self |-> self, studies |-> studies]
    /\ LET a == [stop |-> "no", sampler_method |-> sampler_method,
                 pruner_method |-> pruner_method,
                 continue_previous |-> continue_previous]
           r == OptSetup(self, studies, optuna_installed, a)
       IN /\ self' = r.self
          /\ studies' = r.studies
          /\ IF r.out = "run"
             THEN /\ pc' = "optimizing"
                  /\ call' = [n_trials |-> n_trials, n_jobs |-> n_jobs,
                              study |-> r.study,
                              base |-> Len(r.studies[r.study].trials),
                              stop |-> "no"]
                  /\ last' = [op |-> "optimizing", arg |-> Some(a), out |-> "run",
                              ret |-> None]
             ELSE /\ pc' = "idle"
                  /\ call' = NoCall
                  /\ last' = [op |-> "optimize", arg |-> Some(a), out |-> r.out,
                              ret |-> None]
    /\ UNCHANGED <<envs, optuna_installed, fitVars, ioVars>>
    /\ UNCHANGED <<trialVars, advVars, banditVars, reinforceVars>>

\* the trials of the study being optimized, and those of this call running
CallTrials == IF call.study = 0 THEN <<>> ELSE studies[call.study].trials
RunningTrials ==
    {t \in DOMAIN CallTrials : t > call.base /\ CallTrials[t].state = "RUNNING"}

\* the objective up to the construction of the trial's AgentStats: its
\* init_kwargs are a deep copy of self.init_kwargs updated with the sampled
\* parameters, which the trial records
NewTrial(d, params) ==
    [params |-> params, kwargs |-> DictUpdate(d.init_kwargs, params),
     state |-> "RUNNING", value |-> None]

TrialStart(params) ==
    /\ pc = "optimizing"
    /\ call.stop = "no"
    /\ Len(CallTrials) - call.base < call.n_trials
    /\ Cardinality(RunningTrials) < call.n_jobs
    /\ studies' = [studies EXCEPT ![call.study].trials =
                      Append(@, NewTrial(self, params))]
    /\ UNCHANGED <<envs, self, pc, last, pre, optuna_installed, fitVars, call,
                   nopts, ioVars>>
    /\ UNCHANGED <<trialVars, advVars, banditVars, reinforceVars>>

SetTrial(t, state, value) ==
    studies' = [studies EXCEPT ![call.study].trials[t].state = state,
                               ![call.study].trials[t].value = value]

\* the objective returns the mean reward of the trial's agents
TrialFinish(t, v) ==
    /\ pc = "optimizing"
    /\ t \in RunningTrials
    /\ SetTrial(t, "COMPLETE", Some(v))
    /\ UNCHANGED <<envs, self, pc, last, pre, optuna_installed, fitVars, call,
                   nopts, ioVars>>
    /\ UNCHANGED <<trialVars, advVars, banditVars, reinforceVars>>

\* the objective raises an exception: the trial fails, no new trial starts
\* and study.optimize raises once the running trials are over
TrialRaise(t) ==
    /\ pc = "optimizing"
    /\ call.stop = "no"
    /\ t \in RunningTrials
    /\ SetTrial(t, "FAIL", None)
    /\ call' = [call EXCEPT !.stop = "raise"]
    /\ UNCHANGED <<envs, self, pc, last, pre, optuna_installed, fitVars, nopts,
                   ioVars>>
    /\ UNCHANGED <<trialVars, advVars, banditVars, reinforceVars>>

\* KeyboardInterrupt during study.optimize: no new trial starts
Interrupt ==
    /\ pc = "optimizing"
    /\ call.stop = "no"
    /\ call' = [call EXCEPT !.stop = "interrupt"]
    /\ UNCHANGED <<envs, self, pc, last, pre, optuna_installed, fitVars, studies,
                   nopts, ioVars>>
    /\ UNCHANGED <<trialVars, advVars, banditVars, reinforceVars>>

\* a running trial is cut short by the interrupt
TrialAbort(t) ==
    /\ pc = "optimizing"
    /\ call.stop = "interrupt"
    /\ t \in RunningTrials
    /\ SetTrial(t, "FAIL", None)
    /\ UNCHANGED <<envs, self, pc, last, pre, optuna_installed, fitVars, call,
                   nopts, ioVars>>
    /\ UNCHANGED <<trialVars, advVars, banditVars, reinforceVars>>

Completed(trials) == {t \in DOMAIN trials : trials[t].state = "COMPLETE"}

\* study.best_trial: the completed trials with the best value for the
\* study's direction
BestTrials(study) ==
    LET done == Completed(study.trials)
        v(t) == Val(study.trials[t].value)
    IN {t \in done : \A u \in done :
            IF study.direction = "maximize" THEN v(u) <= v(t) ELSE v(t) <= v(u)}

\* (mutant) init_kwargs is replaced by the best parameters
UpdateInitKwargsReplace(init_kwargs, params) == params

\* self.init_kwargs.update(best_trial.params)
UpdateInitKwargs(init_kwargs, params) == DictUpdate(init_kwargs, params)

\* study.optimize is over (n_trials run, timeout reached or interrupted) and a
\* trial completed: init_kwargs is updated, (best_trial, dataframe) returned
OptReturn(best) ==
    /\ pc = "optimizing"
    /\ RunningTrials = {}
    /\ call.stop # "raise"
    /\ best \in BestTrials(studies[call.study])
    /\ self' = [self EXCEPT !.init_kwargs =
                   UpdateInitKwargs(@, CallTrials[best].params)]
    /\ pc' = "idle"
    /\ last' = [op |-> "optimize",
                arg |-> Some([Val(last.arg) EXCEPT !.stop = call.stop]),
                out |-> "returned", ret |-> Some(best)]
    /\ call' = NoCall
    /\ UNCHANGED <<envs, pre, optuna_installed, fitVars, studies, nopts, ioVars>>
    /\ UNCHANGED <<trialVars, advVars, banditVars, reinforceVars>>

\* study.optimize raised the objective's exception, or the study has no
\* completed trial and study.best_trial raises ValueError
OptRaise ==
    /\ pc = "optimizing"
    /\ RunningTrials = {}
    /\ \/ call.stop = "raise"
       \/ Completed(CallTrials) = {}
    /\ pc' = "idle"
    /\ last' = [last EXCEPT !.op = "optimize",
                     !.out = IF call.stop = "raise" THEN "Exception" ELSE "ValueError"]
    /\ call' = NoCall
    /\ UNCHANGED <<envs, self, pre, optuna_installed, fitVars, studies, nopts, ioVars>>
    /\ UNCHANGED <<trialVars, advVars, banditVars, reinforceVars>>

----------------------------------------------------------------------------
(* AgentStats.save and AgentStats.load.  A file name is a sequence of      *)
(* characters; a pickled dictionary holds its items together with the      *)
(* objects they refer to.                                                  *)

SuffixLen == 7
Suffix == <<".", "p", "i", "c", "k", "l", "e">>

\* the file names a caller may give
Stems == { <<>>, <<"a">> }
Names == Stems \cup {s \o Suffix : s \in Stems}

\* filename[-7:]
LastChars(f) ==
    IF Len(f) <= SuffixLen THEN f ELSE SubSeq(f, Len(f) - SuffixLen + 1, Len(f))

\* (mutant) '.pickle' is always appended
SaveFilenameAlways(f) == f \o Suffix

\* the file save() opens
SaveFilename(f) == IF LastChars(f) # Suffix THEN f \o Suffix ELSE f

\* the file load() opens
LoadFilename(f) == IF LastChars(f) # Suffix THEN f \o Suffix ELSE f

\* pickle.dump(self.__dict__, ff)
Pickle(d) == [attrs |-> d, envs |-> envs, studies |-> studies]

Directory == [dir |-> TRUE]

Save(filename) ==
    /\ pc = "idle"
    /\ NCalls < MaxCalls
    /\ nios' = nios + 1
    /\ LET f == IF IsNone(filename) THEN self.default_filename ELSE Val(filename)
           mk == IsNone(filename) /\ <<self.output_dir>> \notin DOMAIN files
           fs == IF mk
                 THEN [n \in DOMAIN files \cup {<<self.output_dir>>} |->
                          IF n = <<self.output_dir>> THEN Directory ELSE files[n]]
                 ELSE files
           g == SaveFilename(f)
       IN /\ files' = [n \in DOMAIN fs \cup {g} |->
                          IF n = g THEN Pickle(self) ELSE fs[n]]
          /\ saved' = Some([filename |-> f,
                             pickled |-> [attrs |-> self, envs |-> envs,
                                          studies |-> studies]])
          /\ last' = [op |-> "save", arg |-> filename, out |-> "ok", ret |-> Some(g)]
    /\ pre' = [self |-> self, studies |-> studies]
    /\ UNCHANGED <<envs, self, pc, optuna_installed, fitVars, optVars, loaded>>
    /\ UNCHANGED <<trialVars, advVars, banditVars, reinforceVars>>

\* the __dict__ of cls(None, None): with agent_class None the constructor
\* sets no attribute
ConstructNone == EmptyDict

\* obj.__dict__.clear(); obj.__dict__.update(tmp_dict)
LoadDict(obj, tmp_dict) == DictUpdate(EmptyDict, tmp_dict)

Load(filename) ==
    /\ pc = "idle"
    /\ UNCHANGED nios
    /\ LET g == LoadFilename(filename)
       IN IF g \in DOMAIN files
          THEN /\ loaded' = Some([files[g] EXCEPT
                                    !.attrs = LoadDict(ConstructNone, @)])
               /\ last' = [op |-> "load", arg |-> Some(filename), out |-> "ok",
                           ret |-> Some(g)]
          ELSE /\ loaded' = loaded
               /\ last' = [op |-> "load", arg |-> Some(filename),
                           out |-> "FileNotFoundError", ret |-> Some(g)]
    /\ pre' = [self |-> self, studies |-> studies]
    /\ UNCHANGED <<envs, self, pc, optuna_installed, fitVars, optVars, files, saved>>
    /\ UNCHANGED <<trialVars, advVars, banditVars, reinforceVars>>

----------------------------------------------------------------------------
(* The objective of a trial, as optimize_hyperparams() defines it.  Each   *)
(* call of objective() is a thread of study.optimize: with n_jobs > 1      *)
(* several are between two of their steps at the same time.                *)

\* kwargs = deepcopy(self.init_kwargs); kwargs.update(sample_parameters(trial)):
\* the parent after it, and the trial's dictionary
ObjectiveKwargs(d, params) ==
    [self |-> d, kwargs |-> DictUpdate(d.init_kwargs, params)]

\* deepcopy(self.train_env), the train_env given to the trial's AgentStats
ObjectiveTrainEnv(h, d) ==
    [heap |-> DeepCopyEnv(h, d.train_env), id |-> Len(h) + 1]

\* AgentStats(agent_class, train_env, init_kwargs=kwargs, n_fit=n_fit, ...):
\* the constructor, run for the trial's own object (eval_env is None)
ParamsStats(h, train_env, kwargs, n_fit) ==
    LET h1 == Reseed(DeepCopyEnv(h, EvalEnvSource(train_env, None)), Len(h) + 1)
        loop == TrainEnvLoop(h1, <<>>, train_env, n_fit)
    IN [heap |-> loop[1],
        stats |-> [agent_class |-> AgentClass,
                   train_env |-> train_env,
                   eval_env |-> Len(h) + 1,
                   init_kwargs |-> kwargs,
                   fit_kwargs |-> EmptyDict,
                   policy_kwargs |-> EmptyDict,
                   n_fit |-> n_fit,
                   train_env_set |-> loop[2],
                   fitted_agents |-> None]]

\* (mutant) the parent's evaluation environment itself is reseeded and used
ObjectiveEvalEnvShared(h, d) ==
    [heap |-> Reseed(h, d.eval_env), id |-> d.eval_env]

\* params_eval_env = deepcopy(self.eval_env); params_eval_env.reseed()
ObjectiveEvalEnv(h, d) ==
    [heap |-> Reseed(DeepCopyEnv(h, d.eval_env), Len(h) + 1), id |-> Len(h) + 1]

\* the environments a trial's objective() holds
ObjectiveEnvs(o) ==
    {o.params_stats.train_env, o.params_stats.eval_env}
        \cup Range(o.params_stats.train_env_set)
        \cup (IF o.params_eval_env = 0 THEN {} ELSE {o.params_eval_env})

\* objective(trial) is called and runs up to the construction of params_stats
ObjectiveStart(params, n_fit) ==
    /\ pc = "optimizing"
    /\ call.stop = "no"
    /\ Len(CallTrials) - call.base < call.n_trials
    /\ Cardinality(RunningTrials) < call.n_jobs
    /\ LET kw == ObjectiveKwargs(self, params)
           te == ObjectiveTrainEnv(envs, kw.self)
           ps == ParamsStats(te.heap, te.id, kw.kwargs, n_fit)
       IN /\ self' = kw.self
          /\ envs' = ps.heap
          /\ objective' = objective @@
                (<<call.study, Len(CallTrials) + 1>> :>
                    [pc |-> "built", params_stats |-> ps.stats,
                     params_eval_env |-> 0])
    /\ studies' = [studies EXCEPT ![call.study].trials =
                      Append(@, NewTrial(self, params))]
    /\ UNCHANGED <<pc, last, pre, optuna_installed, fitVars, call, nopts,
                   ioVars, touched>>
    /\ UNCHANGED <<advVars, banditVars, reinforceVars>>

\* the agent _fit_worker builds for one environment of the trial
ObjectiveAgent(ps, train_env) ==
    WorkerAgent([agent_class |-> ps.agent_class, train_env |-> train_env,
                 init_kwargs |-> ps.init_kwargs, fit_kwargs |-> ps.fit_kwargs])

\* params_stats.fit(): the trial's agents are built on and act on the
\* environments of the trial's train_env_set
ObjectiveFit(t) ==
    /\ pc = "optimizing"
    /\ t \in RunningTrials
    /\ LET key == <<call.study, t>>
           ps == objective[key].params_stats
       IN /\ objective[key].pc = "built"
          /\ objective' = [objective EXCEPT ![key].pc = "fitted",
                 ![key].params_stats.fitted_agents =
                     Some([i \in DOMAIN ps.train_env_set |->
                              ObjectiveAgent(ps, ps.train_env_set[i])])]
          /\ touched' = touched \cup
                 {<<e, key>> : e \in Range(ps.train_env_set)}
    /\ UNCHANGED <<envs, self, pc, last, pre, optuna_installed, fitVars,
                   optVars, ioVars>>
    /\ UNCHANGED <<advVars, banditVars, reinforceVars>>

\* the evaluation environment of the trial is made, compare_policies() runs
\* the fitted agents on it and the objective returns the mean reward
ObjectiveEvaluate(t, v) ==
    /\ pc = "optimizing"
    /\ t \in RunningTrials
    /\ LET key == <<call.study, t>>
           ev == ObjectiveEvalEnv(envs, self)
       IN /\ objective[key].pc = "fitted"
          /\ envs' = ev.heap
          /\ objective' = [objective EXCEPT ![key].pc = "done",
                                            ![key].params_eval_env = ev.id]
          /\ touched' = touched \cup {<<ev.id, key>>}
    /\ SetTrial(t, "COMPLETE", Some(v))
    /\ UNCHANGED <<self, pc, last, pre, optuna_installed, fitVars, call,
                   nopts, ioVars>>
    /\ UNCHANGED <<advVars, banditVars, reinforceVars>>

\* optimize_hyperparams with the steps of its trials' objectives
TrialActions(NTrials, NJobs, NFits) ==
    \/ \E n_trials \in NTrials, n_jobs \in NJobs :
            OptBegin(n_trials, n_jobs, "random", "none", FALSE)
    \/ \E params \in ParamsSet, n_fit \in NFits : ObjectiveStart(params, n_fit)
    \/ \E t \in RunningTrials : ObjectiveFit(t)
    \/ \E t \in RunningTrials, v \in ValueSet : ObjectiveEvaluate(t, v)
    \/ \E t \in RunningTrials : TrialRaise(t)
    \/ Interrupt
    \/ \E t \in RunningTrials : TrialAbort(t)
    \/ \E best \in DOMAIN CallTrials : OptReturn(best)
    \/ OptRaise

----------------------------------------------------------------------------
(* Specifications of AgentStats *)

InitStats ==
    /\ envs = <<NewEnv(0), NewEnv(0)>>
    /\ self = EmptyDict
    /\ pc = "new"
    /\ tasks = <<>>
    /\ nfits = 0
    /\ last = [op |-> "none", arg |-> None, out |-> "ok", ret |-> None]
    /\ pre = [self |-> EmptyDict, studies |-> <<>>]
    /\ optuna_installed \in BOOLEAN
    /\ studies = <<>>
    /\ call = NoCall
    /\ nopts = 0
    /\ files = EmptyDict
    /\ loaded = None
    /\ saved = None
    /\ nios = 0
    /\ objective = <<>>
    /\ touched = {}

FitActions ==
    \/ FitBegin
    \/ \E i \in DOMAIN tasks : WorkerStart(i)
    \/ \E i \in DOMAIN tasks, info \in InfoSet : WorkerFinish(i, info)
    \/ FitEnd

\* optimize_hyperparams called with arguments from the given sets
OptActions(NTrials, NJobs, Ms, Conts) ==
    \/ \E n_trials \in NTrials, n_jobs \in NJobs, m \in Ms,
          continue_previous \in Conts :
            OptBegin(n_trials, n_jobs, m[1], m[2], continue_previous)
    \/ \E params \in ParamsSet : TrialStart(params)
    \/ \E t \in RunningTrials, v \in ValueSet : TrialFinish(t, v)
    \/ \E t \in RunningTrials : TrialRaise(t)
    \/ Interrupt
    \/ \E t \in RunningTrials : TrialAbort(t)
    \/ \E best \in DOMAIN CallTrials : OptReturn(best)
    \/ OptRaise

IoActions ==
    \/ \E filename \in {None} \cup {Some(f) : f \in Names} : Save(filename)
    \/ \E filename \in Names : Load(filename)

InitAgentStats ==
    InitStats /\ InitAdvOff /\ InitBanditOff /\ InitReinforceOff

\* construction and fit()
NextFit ==
    \/ DoConstruct({None, Some(UserEvalEnv)}, {None}, {None, Some(EmptyDict)},
                   0..MaxFit, 1..MaxJobs)
    \/ FitActions

SpecFit == InitAgentStats /\ [][NextFit]_vars

\* construction, fit() and optimize_hyperparams()
NextOpt ==
    \/ DoConstruct({None}, {None, Some(1)},
                   {None, Some([gamma |-> 0, horizon |-> 5])}, {1}, {1})
    \/ FitActions
    \/ OptActions(0..MaxTrials, 1..MaxJobs, Methods, BOOLEAN)

SpecOpt == InitAgentStats /\ [][NextOpt]_vars

\* construction, fit(), optimize_hyperparams(), save() and load()
NextSave ==
    \/ DoConstruct({None}, {Some(1)}, {Some([gamma |-> 0, horizon |-> 5])},
                   {1}, {1})
    \/ FitActions
    \/ OptActions({1}, {1}, {<<"random", "none">>}, {FALSE})
    \/ IoActions

SpecSave == InitAgentStats /\ [][NextSave]_vars


\* construction, fit() and optimize_hyperparams() with its objectives
NextTrial ==
    \/ DoConstruct({None, Some(UserEvalEnv)}, {Some(1)},
                   {Some([gamma |-> 0, horizon |-> 5])}, {1}, {1})
    \/ FitActions
    \/ TrialActions({MaxTrials}, 1..MaxJobs, {1})

SpecTrial == InitAgentStats /\ [][NextTrial]_vars

\* the state of an AgentStats that nothing acts on
InitStatsOff ==
    /\ InitStats
    /\ optuna_installed

InitAdversarial ==
    InitStatsOff /\ InitAdv /\ InitBanditOff /\ InitReinforceOff

SpecAdv == InitAdversarial /\ [][NextAdv]_vars

InitStochastic ==
    InitStatsOff /\ InitAdvOff /\ InitBandit /\ InitReinforceOff

SpecBandit == InitStochastic /\ [][NextBandit]_vars

InitAgent ==
    InitStatsOff /\ InitAdvOff /\ InitBanditOff /\ InitReinforce

\* a call of fit() that has begun goes on: nothing in it waits
SpecReinforce ==
    InitAgent /\ [][NextReinforce]_vars /\ WF_vars(ReinforceRun)

----------------------------------------------------------------------------
(* Claims *)

\* the tasks of the most recent fit() call have all returned
FitReturned == pc # "new" /\ pc # "fitting" /\ nfits >= 1

\* C1: after fit() returns, fitted_agents holds exactly n_fit agents, the
\* i-th being the agent the i-th worker constructed on train_env_set[i],
\* whatever the order the workers started and finished in; and at no time
\* do two tasks of a fit() call have the same training environment.
C1_FitOrder ==
    /\ FitReturned =>
          /\ ~IsNone(self.fitted_agents)
          /\ Len(Val(self.fitted_agents)) = self.n_fit
          /\ \A i \in 1..self.n_fit :
                /\ Val(self.fitted_agents)[i] = Val(tasks[i].agent)
                /\ Val(self.fitted_agents)[i].env = self.train_env_set[i]
                /\ tasks[i].arg.train_env = self.train_env_set[i]
    /\ \A i, j \in DOMAIN tasks :
          i # j => tasks[i].arg.train_env # tasks[j].arg.train_env

\* C1 witness: fit() returned after the second task finished before the first
C1_Witness ==
    /\ FitReturned
    /\ Len(tasks) = 2
    /\ tasks[2].fin = 1
    /\ tasks[1].fin = 2

\* C2: right after construction there are exactly n_fit training
\* environments and one evaluation environment, each a distinct new object
\* deep-copied from train_env (the evaluation environment from eval_env when
\* one is given) and reseeded exactly once; the environments passed in are
\* none of them and have not been reseeded.
C2_EnvCopies ==
    last.op = "init" =>
        LET made == Range(self.train_env_set) \cup {self.eval_env}
        IN /\ Len(self.train_env_set) = self.n_fit
           /\ Cardinality(made) = self.n_fit + 1
           /\ Len(envs) = 2 + self.n_fit + 1
           /\ made \cap {UserTrainEnv, UserEvalEnv} = {}
           /\ \A e \in made : envs[e].reseeds = 1
           /\ \A e \in Range(self.train_env_set) : envs[e].src = last.arg.train_env
           /\ envs[self.eval_env].src =
                 (IF IsNone(last.arg.eval_env) THEN last.arg.train_env
                  ELSE Val(last.arg.eval_env))
           /\ envs[UserTrainEnv] = NewEnv(0)
           /\ envs[UserEvalEnv] = NewEnv(0)

\* C2 witness: constructed with eval_env None and two training environments
C2_Witness ==
    /\ last.op = "init"
    /\ IsNone(last.arg.eval_env)
    /\ self.n_fit = 2

\* C3: after fit() returns, fit_statistics[entry] is, for every entry of
\* fit_info, the list of the n_fit values of that entry in the infos the
\* agents' fits returned in the most recent fit() call.
C3_FitStatistics ==
    FitReturned =>
        \A e \in Range(self.fit_info) :
            /\ e \in DOMAIN self.fit_statistics
            /\ Len(self.fit_statistics[e]) = self.n_fit
            /\ \A i \in 1..self.n_fit :
                  self.fit_statistics[e][i] = Val(tasks[i].info)[e]

\* C3 witness: a second fit() call returned other values than the first
C3_Witness ==
    /\ FitReturned
    /\ nfits = 2
    /\ self.n_fit = 2
    /\ pre.self.fit_statistics # EmptyDict
    /\ pre.self.fit_statistics # self.fit_statistics

\* the call of the given method that last returned or raised
Returned(op) == pc = "idle" /\ last.op = op

\* f ends with the characters suf
EndsWith(f, suf) ==
    /\ Len(f) >= Len(suf)
    /\ SubSeq(f, Len(f) - Len(suf) + 1, Len(f)) = suf

\* f, with '.pickle' appended exactly when f does not end with it
PickleName(f) == IF EndsWith(f, Suffix) THEN f ELSE f \o Suffix

\* C4: save(f) leaves the object as it was and writes the file named f with
\* '.pickle' appended exactly when f does not end with it; load(g) opens the
\* file named likewise, and when that is the file of the last save() it
\* succeeds and returns an object with the attributes and attribute values
\* of the object saved: none missing, none added.
C4_SaveLoad ==
    /\ Returned("save") =>
          /\ self = pre.self
          /\ studies = pre.studies
          /\ last.ret = Some(PickleName(Val(saved).filename))
          /\ Val(last.ret) \in DOMAIN files
    /\ Returned("load") => last.ret = Some(PickleName(Val(last.arg)))
    /\ ( /\ Returned("load")
         /\ ~IsNone(saved)
         /\ PickleName(Val(last.arg)) = PickleName(Val(saved).filename) ) =>
          /\ last.out = "ok"
          /\ DOMAIN Val(loaded).attrs = DOMAIN Val(saved).pickled.attrs
          /\ \A k \in DOMAIN Val(loaded).attrs :
                Val(loaded).attrs[k] = Val(saved).pickled.attrs[k]
          /\ Val(loaded) = Val(saved).pickled

\* C4 witness: an object that was fitted and saved under a name without the
\* suffix is loaded under the name with the suffix
C4_Witness ==
    /\ Returned("load")
    /\ last.out = "ok"
    /\ ~IsNone(saved)
    /\ ~EndsWith(Val(saved).filename, Suffix)
    /\ Val(last.arg) = Val(saved).filename \o Suffix
    /\ ~IsNone(Val(loaded).attrs.fitted_agents)

\* C5: when optimize_hyperparams returns a result, the trial it returns is a
\* completed trial of the study with the largest value, init_kwargs maps
\* every key of that trial's params to the trial's value, and every other
\* key of init_kwargs has the value it had before the call.
C5_BestParams ==
    (Returned("optimize") /\ last.out = "returned") =>
        LET study == studies[Val(self.study)]
            b == study.trials[Val(last.ret)]
            old == pre.self.init_kwargs
        IN /\ b.state = "COMPLETE"
           /\ \A t \in DOMAIN study.trials :
                 study.trials[t].state = "COMPLETE" =>
                     Val(study.trials[t].value) <= Val(b.value)
           /\ DOMAIN self.init_kwargs = DOMAIN old \cup DOMAIN b.params
           /\ \A k \in DOMAIN b.params : self.init_kwargs[k] = b.params[k]
           /\ \A k \in DOMAIN old \ DOMAIN b.params : self.init_kwargs[k] = old[k]

\* C5 witness: the study was interrupted, it holds a failed trial and a
\* completed trial worse than the best one, and init_kwargs had a key that
\* is not sampled
C5_Witness ==
    /\ Returned("optimize")
    /\ last.out = "returned"
    /\ Val(last.arg).stop = "interrupt"
    /\ "horizon" \in DOMAIN pre.self.init_kwargs
    /\ LET trials == studies[Val(self.study)].trials
       IN /\ \E t \in DOMAIN trials : trials[t].state = "FAIL"
          /\ \E t \in DOMAIN trials :
                /\ trials[t].state = "COMPLETE"
                /\ Val(trials[t].value) < Val(trials[Val(last.ret)].value)

\* the outcomes of a call that reached study.optimize
Ran == {"returned", "ValueError", "Exception"}

\* C6: a call with continue_previous=True never raises NotImplementedError
\* and, once past its checks, leaves self.study the same study object, with
\* its sampler and pruner, its earlier trials kept and new trials only added
\* after them; a call with continue_previous=False that gets past its checks
\* binds self.study to a new study object and leaves the earlier studies
\* alone.
C6_ContinuePrevious ==
    Returned("optimize") =>
        LET a == Val(last.arg)
        IN /\ a.continue_previous => last.out # "NotImplementedError"
           /\ (a.continue_previous /\ last.out \in Ran) =>
                 /\ ~IsNone(self.study)
                 /\ self.study = pre.self.study
                 /\ Len(studies) = Len(pre.studies)
                 /\ \A id \in DOMAIN studies :
                       /\ studies[id].sampler = pre.studies[id].sampler
                       /\ studies[id].pruner = pre.studies[id].pruner
                       /\ Len(pre.studies[id].trials) <= Len(studies[id].trials)
                       /\ SubSeq(studies[id].trials, 1, Len(pre.studies[id].trials))
                             = pre.studies[id].trials
                       /\ id # Val(self.study) => studies[id] = pre.studies[id]
           /\ (~a.continue_previous /\ last.out \in Ran) =>
                 /\ self.study = Some(Len(pre.studies) + 1)
                 /\ self.study # pre.self.study
                 /\ Len(studies) = Len(pre.studies) + 1
                 /\ SubSeq(studies, 1, Len(pre.studies)) = pre.studies
                 /\ \A t \in DOMAIN studies[Val(self.study)].trials :
                       studies[Val(self.study)].trials[t].state # "RUNNING"

\* C6 witness: a study with a trial was continued under an unsupported
\* sampler name and got a new trial
C6_Witness ==
    /\ Returned("optimize")
    /\ last.out = "returned"
    /\ Val(last.arg).continue_previous
    /\ Val(last.arg).sampler_method = "tpe"
    /\ Len(pre.studies) = 1
    /\ Len(pre.studies[1].trials) >= 1
    /\ Len(studies[1].trials) > Len(pre.studies[1].trials)

SupportedSamplers == {"random", "optuna_default"}
SupportedPruners == {"halving", "none"}

\* the outcomes of a call that was rejected
Rejections == {"None", "AssertionError", "NotImplementedError"}

\* C7 (as claimed): an invalid call is rejected in the way one of its
\* defects names (AssertionError for a missing eval_horizon or a missing
\* previous study, NotImplementedError for an unsupported sampler or pruner
\* name, None without optuna), and a rejected call leaves the AgentStats
\* state as it was.
C7_Original ==
    Returned("optimize") =>
        LET a == Val(last.arg)
            d == pre.self
            badName == /\ ~a.continue_previous
                       /\ \/ a.sampler_method \notin SupportedSamplers
                          \/ a.pruner_method \notin SupportedPruners
            named == (IF IsNone(d.eval_horizon)
                      THEN {"AssertionError"} ELSE {})
                     \cup (IF a.continue_previous /\ IsNone(d.study)
                           THEN {"AssertionError"} ELSE {})
                     \cup (IF badName THEN {"NotImplementedError"} ELSE {})
                     \cup (IF ~optuna_installed THEN {"None"} ELSE {})
        IN /\ named # {} => last.out \in named
           /\ last.out \in Rejections => self = pre.self /\ studies = pre.studies

\* C7 (amended): the checks are made in order (optuna installed, then
\* eval_horizon, then the previous study or the sampler and pruner names), a
\* call is rejected exactly when one of them fails, and a rejected call runs
\* no trial and changes no attribute but rng, which has advanced by one draw
\* exactly when sampler_method was 'random' and pruner_method unsupported.
C7_Rejects ==
    Returned("optimize") =>
        LET a == Val(last.arg)
            d == pre.self
            badName == /\ ~a.continue_previous
                       /\ \/ a.sampler_method \notin SupportedSamplers
                          \/ a.pruner_method \notin SupportedPruners
            drew == /\ optuna_installed
                    /\ ~IsNone(d.eval_horizon)
                    /\ ~a.continue_previous
                    /\ a.sampler_method = "random"
                    /\ a.pruner_method \notin SupportedPruners
        IN /\ ~optuna_installed => last.out = "None"
           /\ (optuna_installed /\ IsNone(d.eval_horizon)) =>
                 last.out = "AssertionError"
           /\ ( /\ optuna_installed
                /\ ~IsNone(d.eval_horizon)
                /\ a.continue_previous
                /\ IsNone(d.study) ) => last.out = "AssertionError"
           /\ (optuna_installed /\ ~IsNone(d.eval_horizon) /\ badName) =>
                 last.out = "NotImplementedError"
           /\ last.out \in Rejections =>
                 /\ \/ ~optuna_installed
                    \/ IsNone(d.eval_horizon)
                    \/ a.continue_previous /\ IsNone(d.study)
                    \/ badName
                 /\ studies = pre.studies
                 /\ DOMAIN self = DOMAIN d
                 /\ \A k \in DOMAIN self \ {"rng"} : self[k] = d[k]
                 /\ self.rng = IF drew THEN d.rng + 1 ELSE d.rng

\* C7 witness: a call with an unsupported pruner name was rejected after an
\* earlier fit() and after the seed of its sampler was drawn
C7_Witness ==
    /\ Returned("optimize")
    /\ last.out = "NotImplementedError"
    /\ Val(last.arg).sampler_method = "random"
    /\ ~IsNone(self.fitted_agents)
    /\ self.rng # pre.self.rng

----------------------------------------------------------------------------
\* C8: the t-th successful step(a) of an AdversarialBandit built from a reward
\* table returns rewards[t-1][a], whatever the steps and resets before it
\* were; every successful step consumes exactly one row of the table and
\* reset() consumes and restores none.
C8_FixedRewards ==
    /\ (advLast.op = "step" /\ advLast.out = "ok")
           => /\ advOk \in 1..Len(advTable)
              /\ advLast.reward = PyIndex(advTable[advOk], advLast.action)
              /\ Len(adv.rewards) = advLast.rows - 1
    /\ advLast.op = "reset" => Len(adv.rewards) = advLast.rows

\* what the code does instead: a step consumes a row whenever its action is
\* below n_arms and a row is left, and returns that row's entry if it has one
C8_RowPerAcceptedStep ==
    /\ Len(adv.rewards) <= Len(advTable) - advOk
    /\ (advLast.op = "step" /\ advLast.out = "ok")
           => LET t == Len(advTable) - Len(adv.rewards)
              IN /\ t \in 1..Len(advTable)
                 /\ advLast.reward = PyIndex(advTable[t], advLast.action)

\* a successful step that came after a failed step with an action below
\* -n_arms, which took a row with it
C8_Witness ==
    /\ advLast.op = "step"
    /\ advLast.out = "ok"
    /\ advOk = 1
    /\ Len(adv.rewards) = Len(advTable) - 2

----------------------------------------------------------------------------
\* C9: two runs of a Bandit begun by a reseed with the same seed give the
\* same rewards as long as they take the same actions, whatever steps and
\* resets came before the second reseed.
C9_Reproducible ==
    (~IsNone(blog.seed) /\ blog.seed = bref.seed)
        => \A k \in 0..MaxSteps :
               (/\ k <= Len(blog.actions)
                /\ k <= Len(bref.actions)
                /\ SubSeq(blog.actions, 1, k) = SubSeq(bref.actions, 1, k))
                   => SubSeq(blog.rewards, 1, k) = SubSeq(bref.rewards, 1, k)

\* a run of three steps on both arms that repeats the actions of a run begun
\* by an earlier reseed with the same seed
C9_Witness ==
    /\ bref.old
    /\ blog.seed = bref.seed
    /\ Len(blog.actions) = MaxSteps
    /\ blog.actions = bref.actions
    /\ \E i, j \in 1..Len(blog.actions) : blog.actions[i] # blog.actions[j]
    /\ \E i, j \in 1..Len(blog.rewards) : blog.rewards[i] # blog.rewards[j]

----------------------------------------------------------------------------
ReinforceOver == rpc = "idle" /\ rfit.out # "none"

\* within an episode nothing is recorded after a done step
NoStepAfterDone ==
    rpc \in {"for", "end"}
        => /\ rfit.steps <= Len(agent.memory)
           /\ \A i \in 1..rfit.steps :
                  agent.memory[Len(agent.memory) - rfit.steps + i]
                      => (i = rfit.steps /\ rpc = "end")

\* C10 as stated: fit(budget) ends having run exactly budget episodes (none
\* when budget <= 0) and raised the episode counter by as many; each episode
\* takes at least one and at most horizon steps and stops right after the
\* first done step.
C10_Original ==
    /\ ReinforceOver
           => /\ rfit.out = "returned"
              /\ rfit.ran = Max(rfit.budget, 0)
              /\ agent.episode = rfit.ep0 + rfit.ran
    /\ rfit.lastSteps # 0 - 1
           => /\ 1 <= rfit.lastSteps
              /\ rfit.lastSteps <= agent.horizon
              /\ rfit.lastSteps < agent.horizon => rfit.lastDone
    /\ NoStepAfterDone

C10_Safe ==
    /\ (ReinforceOver /\ rfit.out = "returned")
           => /\ rfit.ran = Max(rfit.budget, 0)
              /\ agent.episode = rfit.ep0 + rfit.ran
    /\ (ReinforceOver /\ rfit.out = "ZeroDivisionError")
           => /\ agent.batch_size = 0
              /\ rfit.ran = 1
    /\ (ReinforceOver /\ rfit.out = "RuntimeError")
           => agent.horizon <= 0
    /\ (agent.batch_size # 0 /\ agent.horizon >= 1)
           => rfit.out \in {"none", "running", "returned"}
    /\ rfit.lastSteps # 0 - 1
           => /\ rfit.lastSteps <= Max(agent.horizon, 0)
              /\ agent.horizon >= 1 => rfit.lastSteps >= 1
              /\ rfit.lastSteps < agent.horizon => rfit.lastDone
    /\ NoStepAfterDone

\* C10: a call of fit(budget) ends; when it returns it has run exactly
\* max(budget, 0) episodes and raised the episode counter by as many; it
\* raises only when batch_size = 0 (at the end of its first episode) or
\* horizon <= 0; each episode takes at most max(horizon, 0) steps, at least
\* one when horizon >= 1, and stops right after the first done step.
C10_FitEpisodes ==
    /\ []C10_Safe
    /\ (rpc # "idle") ~> ReinforceOver

\* fit(2) has returned after two episodes, the last one cut short by a done
\* step
C10_Witness ==
    /\ ReinforceOver
    /\ rfit.out = "returned"
    /\ rfit.budget = 2
    /\ rfit.ran = 2
    /\ agent.horizon = 2
    /\ rfit.lastSteps = 1
    /\ rfit.lastDone

----------------------------------------------------------------------------
\* the environments of the parent AgentStats and those its caller gave it
ParentEnvs(d) ==
    {UserTrainEnv, UserEvalEnv, d.train_env, d.eval_env}
        \cup Range(d.train_env_set)

\* the attributes of the parent that trials must leave alone
Undisturbed ==
    {"train_env", "train_env_set", "eval_env", "fit_kwargs", "policy_kwargs",
     "fitted_agents", "fit_statistics"}

\* C11: while and after the objectives of the trials run, also concurrently,
\* the parent's train_env, train_env_set, eval_env, fit_kwargs,
\* policy_kwargs, fitted_agents and fit_statistics are the objects and values
\* they were when optimize_hyperparams was called, no trial has acted on or
\* reseeded an environment of the parent, and init_kwargs is unchanged until
\* the one update with the best parameters when the call returns; the
\* environments of a trial are new deep copies held by that trial alone, and
\* its kwargs are its own dictionary: the parent's init_kwargs at the call,
\* updated with the trial's parameters.
C11_TrialsIsolated ==
    (pc = "optimizing" \/ Returned("optimize")) =>
        /\ \A k \in Undisturbed : self[k] = pre.self[k]
        /\ self.init_kwargs =
               IF Returned("optimize") /\ last.out = "returned"
               THEN DictUpdate(pre.self.init_kwargs,
                               studies[Val(self.study)].trials[Val(last.ret)].params)
               ELSE pre.self.init_kwargs
        /\ \A e \in ParentEnvs(self) :
               /\ \A k \in DOMAIN objective : <<e, k>> \notin touched
               /\ envs[e].reseeds =
                      IF e \in {UserTrainEnv, UserEvalEnv} THEN 0 ELSE 1
        /\ \A k \in DOMAIN objective :
               LET o == objective[k]
                   ps == o.params_stats
               IN /\ ObjectiveEnvs(o) \cap ParentEnvs(self) = {}
                  /\ Cardinality(ObjectiveEnvs(o)) =
                         2 + ps.n_fit + (IF o.params_eval_env = 0 THEN 0 ELSE 1)
                  /\ envs[ps.train_env].src = self.train_env
                  /\ o.params_eval_env # 0 =>
                         envs[o.params_eval_env].src = self.eval_env
                  /\ \A j \in DOMAIN objective :
                         j # k => ObjectiveEnvs(o) \cap ObjectiveEnvs(objective[j]) = {}
                  /\ k[1] = Val(self.study) =>
                         ps.init_kwargs =
                             DictUpdate(pre.self.init_kwargs,
                                        studies[k[1]].trials[k[2]].params)
        /\ \A u \in touched : u[1] \in ObjectiveEnvs(objective[u[2]])

\* two trials run at the same time, each has fitted its agents on its own
\* environments, and the parent had fitted agents of its own before
C11_Witness ==
    /\ pc = "optimizing"
    /\ ~IsNone(self.fitted_agents)
    /\ Cardinality(RunningTrials) = 2
    /\ \A t \in RunningTrials : objective[<<call.study, t>>].pc = "fitted"
    /\ \E t, u \in RunningTrials :
           CallTrials[t].params # CallTrials[u].params

============================================================================
